---- MODULE Spec2Model ----
(***************************************************************************)
(* Model of the food-log store hook (useFoodEntries), the home screen's    *)
(* save handler and the macro normalisation of the vision-analysis result. *)
(*                                                                         *)
(* React semantics used throughout: a state setter takes effect at once    *)
(* (the component re-renders before the next event is handled), while an   *)
(* async function keeps the foodEntries / nutritionAdvice of the render    *)
(* in which it was invoked (fields cFE / cNA of an in-flight operation).   *)
(* An AsyncStorage call takes effect when it is issued; the code after the *)
(* await runs in a later step, in any order relative to other operations.  *)
(* Time is counted in ticks, DayLen ticks to a day.                        *)
(***************************************************************************)
EXTENDS Integers, Sequences, FiniteSets, TLC

VARIABLES
    now,                  \* the clock (Date.now()), in ticks
    stEntries,            \* AsyncStorage key "foodEntries"
    stAdvice,             \* AsyncStorage key "nutritionAdvice"
    foodEntries,          \* hook state
    groupedEntries,       \* hook state
    todaysCalories,       \* hook state
    nutritionAdvice,      \* hook state
    isAnalyzingNutrition, \* hook state
    ops,                  \* in-flight add / delete / analyze calls, oldest first
    loads,                \* in-flight loadFoodEntries calls started by the effect
    refreshTrigger,       \* the hook's argument
    issued,               \* operations the user has started so far
    failures,             \* storage calls that have failed so far
    snackbar,             \* last message shown by handleSaveFood
    ev,                   \* what the last step did (history)
    macroIn,              \* nutrition triple of a parsed vision reply
    macroOut,             \* the triple analyzeFoodImage returns for it
    macroPc,
    image,                \* useCamera state: the photo shown, if any
    isAnalyzing,          \* useFoodAnalysis state
    recognizedFood,       \* useFoodAnalysis state
    estimatedCalories,    \* useFoodAnalysis state
    nutritionData,        \* useFoodAnalysis state
    foodNotRecognized,    \* useFoodAnalysis state
    error,                \* useFoodAnalysis state
    openAIError,          \* useOpenAIVision state
    calls,                \* takePicture / analyzeImage calls in flight
    taps,                 \* presses of the capture button so far
    apiKeyValid,          \* hasValidApiKey() of this build
    imgEv,                \* what the last step of the capture flow did (history)
    stSettings,           \* AsyncStorage "settings": Null when absent
    stOnboarding,         \* AsyncStorage "hasCompletedOnboarding": Null when absent
    clearPc               \* where handleConfirmDelete is

vars == <<now, stEntries, stAdvice, foodEntries, groupedEntries, todaysCalories,
          nutritionAdvice, isAnalyzingNutrition, ops, loads, refreshTrigger,
          issued, failures, snackbar, ev, macroIn, macroOut, macroPc,
          image, isAnalyzing, recognizedFood, estimatedCalories, nutritionData,
          foodNotRecognized, error, openAIError, calls, taps, apiKeyValid, imgEv,
          stSettings, stOnboarding, clearPc>>

storeVars == <<now, stEntries, stAdvice, foodEntries, groupedEntries,
               todaysCalories, nutritionAdvice, isAnalyzingNutrition, ops,
               loads, refreshTrigger, issued, failures, snackbar, ev>>

macroVars == <<macroIn, macroOut, macroPc>>

imageVars == <<image, isAnalyzing, recognizedFood, estimatedCalories,
               nutritionData, foodNotRecognized, error, openAIError, calls,
               taps, apiKeyValid, imgEv>>

settingsVars == <<stSettings, stOnboarding, clearPc>>

(***************************************************************************)
(* Bounds                                                                  *)
(***************************************************************************)
DayLen == 2        \* ticks per day
MaxTicks == 1      \* how far the clock advances during a session
MaxIssued == 2     \* operations the user starts in a session
MaxLoads == 1      \* effect-started loads in flight at most
MaxFailures == 1   \* storage calls that fail
MaxMacro == 40     \* largest protein / fat / carbs value of a vision reply

(***************************************************************************)
(* JavaScript numbers of the macro normalisation: a finite value is the    *)
(* fraction n/d (d > 0, n >= 0 here), besides Infinity and NaN.            *)
(***************************************************************************)
Fin(n, d) == [k |-> "fin", n |-> n, d |-> d]
Num(n) == Fin(n, 1)
Infinity == [k |-> "inf", n |-> 0, d |-> 1]
NaN == [k |-> "nan", n |-> 0, d |-> 1]

IsInt(x) == x.k = "fin" /\ x.n % x.d = 0
IntVal(x) == x.n \div x.d

\* a / b for numbers holding integers
JSDiv(a, b) ==
    IF a.k = "nan" \/ b.k = "nan" THEN NaN
    ELSE IF IntVal(b) = 0 THEN (IF IntVal(a) = 0 THEN NaN ELSE Infinity)
    ELSE Fin(IntVal(a), IntVal(b))

\* floor(log2(n / d)) for n, d > 0
RECURSIVE ExponentUp(_, _, _)
ExponentUp(n, d, e) ==
    IF d * 2 ^ (e + 1) <= n THEN ExponentUp(n, d, e + 1) ELSE e

RECURSIVE ExponentDown(_, _, _)
ExponentDown(n, d, j) ==
    IF n * 2 ^ j < d THEN ExponentDown(n, d, j + 1) ELSE j

Exponent(n, d) ==
    IF n >= d THEN ExponentUp(n, d, 0) ELSE 0 - ExponentDown(n, d, 1)

\* 2^n modulo m
RECURSIVE Pow2Mod(_, _)
Pow2Mod(n, m) == IF n = 0 THEN 1 % m ELSE (2 * Pow2Mod(n - 1, m)) % m

\* The double of the quotient n / d is q * 2^(e - 52), with e the exponent of
\* n / d and q its 53-bit significand rounded to nearest, ties to even; the
\* quotient lies r / d units of 2^(e - 52) above floor(q): r is the remainder
\* of n * 2^(52 - e) by d.
QuotientRemainder(n, d) ==
    (n * Pow2Mod(52 - Exponent(n, d), d)) % d

\* the quotient's double is the one below the quotient
QuotientRoundsDown(n, d) ==
    LET r == QuotientRemainder(n, d)
        odd == (n * Pow2Mod(52 - Exponent(n, d), 2 * d)) % (2 * d) >= d
    IN  r > 0 /\ (2 * r < d \/ (2 * r = d /\ ~odd))

\* a * (n / d) is k + 1/2 exactly, yet the double of a * double(n / d) is
\* below k + 1/2: the quotient's double is too small by r / d units, a times
\* that is more than half the distance 2^(E - 52) between the doubles below
\* k + 1/2 (an exact half rounds to the even significand of k + 1/2)
TieBelow(a, n, d) ==
    /\ (2 * a * n) % d = 0
    /\ ((2 * a * n) \div d) % 2 = 1
    /\ QuotientRoundsDown(n, d)
    /\ LET k == (a * n) \div d
           e1 == Exponent(n, d) + 1
           E == IF k = 0 THEN 0 - 2 ELSE Exponent(k, 1)
           m == IF e1 < E THEN e1 ELSE E
       IN  a * QuotientRemainder(n, d) * 2 ^ (e1 - m) > d * 2 ^ (E - m)

\* a * f for an integer-valued a >= 0 and f the double of the quotient
\* f.n / f.d. The product is kept exact, which Math.round takes as it takes
\* the double, except where the exact product is a tie k + 1/2 and the double
\* falls below it: that double is written k + 1/4.
JSMul(a, f) ==
    IF a.k = "nan" \/ f.k = "nan" THEN NaN
    ELSE IF f.k = "inf" THEN (IF IntVal(a) = 0 THEN NaN ELSE Infinity)
    ELSE IF TieBelow(IntVal(a), f.n, f.d)
    THEN Fin(4 * IntVal(a) * f.n - f.d, 4 * f.d)
    ELSE Fin(IntVal(a) * f.n, f.d)

\* Math.round: nearest integer, halves upwards
MathRound(x) ==
    IF x.k = "fin" THEN Num((2 * x.n + x.d) \div (2 * x.d)) ELSE x

JSAdd(a, b) ==
    IF a.k = "nan" \/ b.k = "nan" THEN NaN
    ELSE IF a.k = "inf" \/ b.k = "inf" THEN Infinity
    ELSE Num(IntVal(a) + IntVal(b))

\* a - b for finite a
JSSub(a, b) ==
    IF a.k = "nan" \/ b.k = "nan" THEN NaN
    ELSE IF b.k = "inf" THEN NaN
    ELSE Num(IntVal(a) - IntVal(b))

\* Math.abs(t - 100) > 5; any comparison with NaN is false
OffByMoreThan5(t) ==
    /\ t.k # "nan"
    /\ (t.k = "inf" \/ IntVal(t) - 100 > 5 \/ 100 - IntVal(t) > 5)

\* the adjustment skipped: the rounded total is taken to be 100 already
NotEqual100Never(t) == FALSE

\* a !== 100
NotEqual100(t) == ~(t.k = "fin" /\ t.n = 100 * t.d)

\* the normalisation block of analyzeFoodImage
NormalizeNutrition(nut) ==
    LET totalNutrition == JSAdd(JSAdd(nut.protein, nut.fat), nut.carbs)
    IN  IF OffByMoreThan5(totalNutrition)
        THEN LET factor == JSDiv(Num(100), totalNutrition)
                 p == MathRound(JSMul(nut.protein, factor))
                 f == MathRound(JSMul(nut.fat, factor))
                 c == MathRound(JSMul(nut.carbs, factor))
                 newTotal == JSAdd(JSAdd(p, f), c)
             IN  [protein |-> p, fat |-> f,
                  carbs |-> IF NotEqual100(newTotal)
                            THEN JSAdd(c, JSSub(Num(100), newTotal))
                            ELSE c]
        ELSE nut

MacroValues == 0 .. MaxMacro

NoMacros == [protein |-> NaN, fat |-> NaN, carbs |-> NaN]

MacroInit ==
    /\ macroIn \in [protein : {Num(v) : v \in MacroValues},
                    fat : {Num(v) : v \in MacroValues},
                    carbs : {Num(v) : v \in MacroValues}]
    /\ macroOut = NoMacros
    /\ macroPc = "parsed"

\* analyzeFoodImage normalises the nutrition of a reply that found food
Normalize ==
    /\ macroPc = "parsed"
    /\ macroOut' = NormalizeNutrition(macroIn)
    /\ macroPc' = "returned"
    /\ UNCHANGED macroIn


(***************************************************************************)
(* Dates                                                                   *)
(***************************************************************************)
WindowDays == 7
DaysPerWeek == 7
DaysPerYear == 365

DayOf(ts) == ts \div DayLen

\* midnight of the current day
getStartOfToday(t) == DayOf(t) * DayLen

\* midnight of the day seven days before the current one
getSevenDaysAgo(t) == (DayOf(t) - WindowDays) * DayLen

\* "Weekday, Mon D": the weekday and the day of the year, without the year
\* and without the time of day
formatDateString(ts) == <<DayOf(ts) % DaysPerWeek, DayOf(ts) % DaysPerYear>>

(***************************************************************************)
(* Values                                                                  *)
(***************************************************************************)
\* null / undefined is the empty sequence, a value v is <<v>>
Null == <<>>
Some(v) == <<v>>

DefaultNutrition == [protein |-> 20, fat |-> 30, carbs |-> 50]

FoodEntry(ts, food, calories, nutrition) ==
    [id |-> ToString(ts), name |-> food, calories |-> calories,
     timestamp |-> ts,
     nutrition |-> IF nutrition = Null THEN DefaultNutrition ELSE nutrition[1]]

DEFAULT_CALORIE_GOAL == 2000

FallbackAdvice == [summary |-> "Unable to analyze nutrition data", n |-> 0]

\* what the fetch of makeOpenAIRequest can end with: no reply at all, the
\* abort of the timer, a status outside 2xx, a body without content, content
\* that is no JSON, or content that parses into an object ("json"), whose
\* fields may be missing (Null, "absent") or of the wrong type
TransportKinds == {"network", "timeout", "status", "noContent", "badJson"}

Rejected(message) ==
    [ok |-> FALSE, message |-> message, foodFound |-> FALSE, description |-> "",
     calories |-> 0, nutrition |-> Null]

Resolved(foodFound, description, calories, nutrition) ==
    [ok |-> TRUE, message |-> "", foodFound |-> foodFound,
     description |-> description, calories |-> calories, nutrition |-> nutrition]

\* makeOpenAIRequest once the fetch has ended
makeOpenAIRequest(reply) ==
    IF reply.kind = "timeout" THEN Rejected("OpenAI API request timed out")
    ELSE IF reply.kind = "network" THEN Rejected("Network request failed")
    ELSE IF reply.kind = "status" THEN Rejected("OpenAI API error")
    ELSE Resolved(FALSE, "", 0, Null)

AdviceReplies ==
    [kind : TransportKinds, summary : {""}, advice : {""}]
    \cup [kind : {"json"}, summary : {"", "ok"}, advice : {"", "eat"}]

NoAdviceReply == [kind |-> "none", summary |-> "", advice |-> ""]

\* the test of the advice's structure left out
IncompleteAdviceNever(result) == FALSE

\* the test of the advice's structure
IncompleteAdvice(result) == result.summary = "" \/ result.advice = ""

\* what analyzeDailyNutrition returns: the advice of the reply for these
\* entries, or the fallback of its catch block
analyzeDailyNutrition(dateEntries, keyValid, reply) ==
    IF Len(dateEntries) = 0
    THEN [summary |-> "No food entries to analyze", n |-> 0]
    ELSE IF ~keyValid THEN FallbackAdvice
    ELSE IF ~makeOpenAIRequest(reply).ok THEN FallbackAdvice
    ELSE IF reply.kind \in {"noContent", "badJson"} THEN FallbackAdvice
    ELSE IF IncompleteAdvice(reply) THEN FallbackAdvice
    ELSE [summary |-> reply.summary, n |-> Len(dateEntries)]

\* the advice map is a set of [date, advice] pairs, one per date
AdviceDates(m) == {a.date : a \in m}
AdviceFor(m, d) == {a \in m : a.date = d}
AdviceWithout(m, d) == {a \in m : a.date # d}
AdviceWith(m, d, adv) == AdviceWithout(m, d) \cup {[date |-> d, advice |-> adv]}

RECURSIVE SumCalories(_)
SumCalories(s) ==
    IF s = <<>> THEN 0 ELSE Head(s).calories + SumCalories(Tail(s))

\* allEntries.sort((a, b) => b.timestamp - a.timestamp): stable, descending
RECURSIVE InsertDesc(_, _)
InsertDesc(sorted, e) ==
    IF sorted = <<>> THEN <<e>>
    ELSE IF Head(sorted).timestamp >= e.timestamp
         THEN <<Head(sorted)>> \o InsertDesc(Tail(sorted), e)
         ELSE <<e>> \o sorted

\* the identity in place of the sort
SortNone(s) == s

RECURSIVE SortDesc(_)
SortDesc(s) ==
    IF s = <<>> THEN <<>>
    ELSE InsertDesc(SortDesc(SubSeq(s, 1, Len(s) - 1)), s[Len(s)])

\* a key for every entry, also when the groups object has it already
GroupKeysRepeated(entries, seen) ==
    [i \in 1 .. Len(entries) |-> formatDateString(entries[i].timestamp)]

\* the keys of the groups object, in insertion order
RECURSIVE GroupKeys(_, _)
GroupKeys(entries, seen) ==
    IF entries = <<>> THEN <<>>
    ELSE LET key == formatDateString(Head(entries).timestamp)
         IN  IF key \in seen THEN GroupKeys(Tail(entries), seen)
             ELSE <<key>> \o GroupKeys(Tail(entries), seen \cup {key})

EntriesOfDate(entries, dateString) ==
    SelectSeq(entries, LAMBDA e : formatDateString(e.timestamp) = dateString)

\* groupEntriesByDay of a render whose nutritionAdvice is advice
groupEntriesByDay(entries, advice) ==
    LET keys == GroupKeys(entries, {})
    IN  [i \in 1 .. Len(keys) |->
            [title |-> keys[i],
             data |-> EntriesOfDate(entries, keys[i]),
             nutritionAdvice |->
                 IF AdviceFor(advice, keys[i]) = {} THEN Null
                 ELSE Some((CHOOSE a \in AdviceFor(advice, keys[i]) : TRUE).advice)]]

RecentEntries(allEntries, t) ==
    SelectSeq(allEntries, LAMBDA e : e.timestamp >= getSevenDaysAgo(t))

TodayEntries(allEntries, t) ==
    SelectSeq(allEntries, LAMBDA e : e.timestamp >= getStartOfToday(t))

SeqToSet(s) == {s[i] : i \in 1 .. Len(s)}

RECURSIVE Flatten(_)
Flatten(groups) ==
    IF groups = <<>> THEN <<>> ELSE Head(groups).data \o Flatten(Tail(groups))

(***************************************************************************)
(* In-flight operations                                                    *)
(***************************************************************************)
\* an add / delete / analyze call: where it waits (pc), whether the write it
\* waits for succeeded (ok), the state of the render it was created in (cFE,
\* cNA) and its locals; src, id, tcBefore, alone and reply are history
BlankOp ==
    [kind |-> "", pc |-> "", src |-> "", id |-> "", ok |-> TRUE,
     cFE |-> <<>>, cNA |-> {}, entry |-> Null, ents |-> Null, adv |-> Null,
     date |-> Null, tcBefore |-> 0, alone |-> FALSE, reply |-> NoAdviceReply]

\* a loadFoodEntries call started by the effect, waiting for getItem("foodEntries")
EffectLoad(advice, entriesJSON) ==
    [pc |-> "L1", cNA |-> advice, ents |-> entriesJSON, adv |-> Null]

Ev(type, op) == [type |-> type, op |-> op]

RemoveAt(s, i) == SubSeq(s, 1, i - 1) \o SubSeq(s, i + 1, Len(s))

NotAlone(s) == [i \in 1 .. Len(s) |-> [s[i] EXCEPT !.alone = FALSE]]

Quiet == ops = <<>> /\ loads = {}

\* no add, delete or analysis is in flight (an effect's reload may be)
Idle == ops = <<>>

\* the effect runs loadFoodEntries again whenever nutritionAdvice is replaced
CanStartLoad(others, load) == load \in others \/ Cardinality(others) < MaxLoads

\* the outcomes of a storage call: it succeeds (TRUE) or rejects (FALSE)
Outcomes == IF failures < MaxFailures THEN {TRUE, FALSE} ELSE {TRUE}

Failed(ok) == IF ok THEN failures ELSE failures + 1

(***************************************************************************)
(* Initial state: the hook has just been mounted over the storage a        *)
(* previous session left, and its effect has started the first load.       *)
(***************************************************************************)
Now0 == (WindowDays + 1) * DayLen + (DayLen - 1)

OldEntry(ts) == FoodEntry(ts, "a", 1, Null)

\* an entry of a day outside the window, of the window's first day, of today
InitTimestamps == {0, DayLen, (WindowDays + 1) * DayLen}

InitEntryLists == {<<OldEntry(t)>> : t \in InitTimestamps}

StoreInit ==
    /\ now = Now0
    /\ stEntries \in {Null} \cup {Some(l) : l \in InitEntryLists}
    /\ stAdvice \in {Null, Some({})}
    /\ (stEntries = Null => stAdvice = Null)
    /\ foodEntries = <<>>
    /\ groupedEntries = <<>>
    /\ todaysCalories = 0
    /\ nutritionAdvice = {}
    /\ isAnalyzingNutrition = FALSE
    /\ ops = <<>>
    /\ loads = {EffectLoad({}, stEntries)}
    /\ refreshTrigger = 0
    /\ issued = 0
    /\ failures = 0
    /\ snackbar = ""
    /\ ev = Ev("mount", Null)

MacroIdle ==
    /\ macroIn = [protein |-> Num(0), fat |-> Num(0), carbs |-> Num(0)]
    /\ macroOut = NoMacros
    /\ macroPc = "idle"

\* an onboarded installation with the default settings, no reset under way
SettingsIdle ==
    /\ stSettings = Null
    /\ stOnboarding = Some("true")
    /\ clearPc = "idle"

\* the capture flow before the first press, in a build with an API key
ImageIdle ==
    /\ image = Null
    /\ isAnalyzing = FALSE
    /\ recognizedFood = ""
    /\ estimatedCalories = 0
    /\ nutritionData = Null
    /\ foodNotRecognized = FALSE
    /\ error = Null
    /\ openAIError = Null
    /\ calls = <<>>
    /\ taps = 0
    /\ apiKeyValid = TRUE
    /\ imgEv = [type |-> "mount", kind |-> "",
               reply |-> [kind |-> "none", foodFound |-> "absent",
                          description |-> "", calories |-> <<>>,
                          nutrition |-> <<>>]]

StoreIdle ==
    /\ now = Now0
    /\ stEntries = Null
    /\ stAdvice = Null
    /\ foodEntries = <<>>
    /\ groupedEntries = <<>>
    /\ todaysCalories = 0
    /\ nutritionAdvice = {}
    /\ isAnalyzingNutrition = FALSE
    /\ ops = <<>>
    /\ loads = {}
    /\ refreshTrigger = 0
    /\ issued = 0
    /\ failures = 0
    /\ snackbar = ""
    /\ ev = Ev("mount", Null)

(***************************************************************************)
(* loadFoodEntries                                                         *)
(***************************************************************************)
\* the state a load sets once both reads have succeeded
LoadedAdvice(adviceJSON) ==
    IF adviceJSON # Null THEN adviceJSON[1] ELSE nutritionAdvice

LoadedEntries(entriesJSON) ==
    IF entriesJSON # Null THEN SortDesc(entriesJSON[1]) ELSE foodEntries

LoadedGroups(entriesJSON, advice) ==
    IF entriesJSON # Null
    THEN groupEntriesByDay(RecentEntries(SortDesc(entriesJSON[1]), now), advice)
    ELSE groupedEntries

LoadedCalories(entriesJSON, calories) ==
    IF entriesJSON # Null
    THEN SumCalories(TodayEntries(SortDesc(entriesJSON[1]), now))
    ELSE calories

\* getItem("foodEntries") has returned; getItem("nutritionAdvice") is issued
LoadCont1(l) ==
    /\ l \in loads /\ l.pc = "L1"
    /\ \E rok \in Outcomes :
          /\ loads' = IF rok
                      THEN (loads \ {l}) \cup {[l EXCEPT !.pc = "L2", !.adv = stAdvice]}
                      ELSE loads \ {l}
          /\ failures' = Failed(rok)
          /\ ev' = Ev(IF rok THEN "load" ELSE "loadFailed", Null)
    /\ UNCHANGED <<now, stEntries, stAdvice, foodEntries, groupedEntries,
                   todaysCalories, nutritionAdvice, isAnalyzingNutrition, ops,
                   refreshTrigger, issued, snackbar>>

\* getItem("nutritionAdvice") has returned; the load sets the hook's state
LoadCont2(l) ==
    /\ l \in loads /\ l.pc = "L2"
    /\ \E rok \in Outcomes :
          /\ failures' = Failed(rok)
          /\ IF rok
             THEN /\ nutritionAdvice' = LoadedAdvice(l.adv)
                  /\ foodEntries' = LoadedEntries(l.ents)
                  /\ groupedEntries' = LoadedGroups(l.ents, l.cNA)
                  /\ todaysCalories' = LoadedCalories(l.ents, todaysCalories)
                  /\ IF l.adv # Null
                     THEN /\ CanStartLoad(loads \ {l}, EffectLoad(l.adv[1], stEntries))
                          /\ loads' = (loads \ {l}) \cup {EffectLoad(l.adv[1], stEntries)}
                     ELSE loads' = loads \ {l}
                  /\ ev' = Ev("loadDone", Null)
             ELSE /\ loads' = loads \ {l}
                  /\ ev' = Ev("loadFailed", Null)
                  /\ UNCHANGED <<nutritionAdvice, foodEntries, groupedEntries,
                                 todaysCalories>>
    /\ UNCHANGED <<now, stEntries, stAdvice, isAnalyzingNutrition, ops,
                   refreshTrigger, issued, snackbar>>

\* refreshTrigger changes: the effect runs loadFoodEntries
Refresh ==
    /\ issued < MaxIssued
    /\ issued' = issued + 1
    /\ refreshTrigger' = refreshTrigger + 1
    /\ CanStartLoad(loads, EffectLoad(nutritionAdvice, stEntries))
    /\ loads' = loads \cup {EffectLoad(nutritionAdvice, stEntries)}
    /\ ops' = NotAlone(ops)
    /\ ev' = Ev("refresh", Null)
    /\ UNCHANGED <<now, stEntries, stAdvice, foodEntries, groupedEntries,
                   todaysCalories, nutritionAdvice, isAnalyzingNutrition,
                   failures, snackbar>>

(***************************************************************************)
(* analyzeNutritionForDate                                                 *)
(***************************************************************************)
\* the call's synchronous start: setIsAnalyzingNutrition(true), then
\* getItem("settings") is issued
AnalyzeOp(src, dateString, entries, advice, from) ==
    [from EXCEPT !.kind = "analyze", !.pc = "N1", !.src = src, !.ok = TRUE,
                 !.cFE = entries, !.cNA = advice, !.date = Some(dateString)]

\* the "Analyze Nutrition" button of a group without advice
AnalyzeDay(dateString) ==
    /\ issued < MaxIssued
    /\ issued' = issued + 1
    /\ ~isAnalyzingNutrition
    /\ \E i \in 1 .. Len(groupedEntries) :
          /\ groupedEntries[i].title = dateString
          /\ groupedEntries[i].nutritionAdvice = Null
    /\ ops' = Append(NotAlone(ops),
                     AnalyzeOp("user", dateString, foodEntries, nutritionAdvice,
                               [BlankOp EXCEPT !.alone = Quiet,
                                               !.tcBefore = todaysCalories]))
    /\ isAnalyzingNutrition' = TRUE
    /\ ev' = Ev("analyze", Null)
    /\ UNCHANGED <<now, stEntries, stAdvice, foodEntries, groupedEntries,
                   todaysCalories, nutritionAdvice, loads, refreshTrigger,
                   failures, snackbar>>

\* getItem("settings") has returned: either the day has no entries and its
\* advice is removed, or analyzeDailyNutrition is called
AnalyzeCont1(i) ==
    /\ i \in 1 .. Len(ops)
    /\ ops[i].kind = "analyze" /\ ops[i].pc = "N1"
    /\ LET op == ops[i]
           dateString == op.date[1]
           dateEntries == EntriesOfDate(op.cFE, dateString)
           updatedAdvice == AdviceWithout(op.cNA, dateString)
       IN  \E rok \in Outcomes :
              IF ~rok
              THEN /\ isAnalyzingNutrition' = FALSE
                   /\ ops' = RemoveAt(ops, i)
                   /\ failures' = Failed(rok)
                   /\ ev' = Ev("analyzeFailed", Some(op))
                   /\ UNCHANGED <<nutritionAdvice, stAdvice, loads>>
              ELSE IF Len(dateEntries) = 0
              THEN /\ nutritionAdvice' = updatedAdvice
                   /\ \E wok \in Outcomes :
                         /\ stAdvice' = IF wok THEN Some(updatedAdvice) ELSE stAdvice
                         /\ ops' = [ops EXCEPT ![i].pc = "N3", ![i].ok = wok]
                         /\ failures' = Failed(wok)
                   /\ CanStartLoad(loads, EffectLoad(updatedAdvice, stEntries))
                   /\ loads' = loads \cup {EffectLoad(updatedAdvice, stEntries)}
                   /\ ev' = Ev("noEntries", Some(op))
                   /\ UNCHANGED isAnalyzingNutrition
              ELSE /\ ops' = [ops EXCEPT ![i].pc = "N2"]
                   /\ ev' = Ev("apiCall", Some(op))
                   /\ UNCHANGED <<nutritionAdvice, stAdvice, loads,
                                  isAnalyzingNutrition, failures>>
    /\ UNCHANGED <<now, stEntries, foodEntries, groupedEntries, todaysCalories,
                   refreshTrigger, issued, snackbar>>

\* analyzeDailyNutrition has returned: the advice is set and persisted
AnalyzeCont2(i) ==
    /\ i \in 1 .. Len(ops)
    /\ ops[i].kind = "analyze" /\ ops[i].pc = "N2"
    /\ \E reply \in AdviceReplies :
          LET op == ops[i]
              dateString == op.date[1]
              advice == analyzeDailyNutrition(EntriesOfDate(op.cFE, dateString),
                                               apiKeyValid, reply)
              updatedAdvice == AdviceWith(op.cNA, dateString, advice)
          IN  /\ nutritionAdvice' = updatedAdvice
              /\ \E wok \in Outcomes :
                    /\ stAdvice' = IF wok THEN Some(updatedAdvice) ELSE stAdvice
                    /\ ops' = [ops EXCEPT ![i].pc = "N4", ![i].ok = wok]
                    /\ failures' = Failed(wok)
              /\ CanStartLoad(loads, EffectLoad(updatedAdvice, stEntries))
              /\ loads' = loads \cup {EffectLoad(updatedAdvice, stEntries)}
              /\ ev' = Ev("adviceSet", Some([op EXCEPT !.reply = reply]))
    /\ UNCHANGED <<now, stEntries, foodEntries, groupedEntries, todaysCalories,
                   isAnalyzingNutrition, refreshTrigger, issued, snackbar>>

\* the write of the map without the day has returned
AnalyzeCont3(i) ==
    /\ i \in 1 .. Len(ops)
    /\ ops[i].kind = "analyze" /\ ops[i].pc = "N3"
    /\ isAnalyzingNutrition' = FALSE
    /\ ops' = RemoveAt(ops, i)
    /\ ev' = Ev("analyzeDone", Some(ops[i]))
    /\ UNCHANGED <<now, stEntries, stAdvice, foodEntries, groupedEntries,
                   todaysCalories, nutritionAdvice, loads, refreshTrigger, issued,
                   failures, snackbar>>

\* the write of the map with the new advice has returned: regroup
AnalyzeCont4(i) ==
    /\ i \in 1 .. Len(ops)
    /\ ops[i].kind = "analyze" /\ ops[i].pc = "N4"
    /\ groupedEntries' = IF ops[i].ok
                         THEN groupEntriesByDay(ops[i].cFE, ops[i].cNA)
                         ELSE groupedEntries
    /\ isAnalyzingNutrition' = FALSE
    /\ ops' = RemoveAt(ops, i)
    /\ ev' = Ev("analyzeDone", Some(ops[i]))
    /\ UNCHANGED <<now, stEntries, stAdvice, foodEntries, todaysCalories,
                   nutritionAdvice, loads, refreshTrigger, issued, failures, snackbar>>

(***************************************************************************)
(* addFoodEntry, called by handleSaveFood                                  *)
(***************************************************************************)
Foods == {"", "apple"}
CalorieInputs == {-1, 0, 2}

StoredList(json) == IF json = Null THEN <<>> ELSE json[1]

\* the guard at the top of addFoodEntry
\* the guard without its test of the calories
InvalidInputNameOnly(food, calories) == food = ""

InvalidInput(food, calories) == food = "" \/ calories <= 0

\* handleSaveFood awaits addFoodEntry(food, calories): an invalid input
\* returns at once and the handler goes on to its success message; a valid
\* one builds the entry and issues getItem("foodEntries")
HandleSaveFood(food, calories) ==
    /\ issued < MaxIssued
    /\ issued' = issued + 1
    /\ IF InvalidInput(food, calories)
       THEN /\ snackbar' = "Added"
            /\ ev' = Ev("addInvalid", Null)
            /\ UNCHANGED <<now, stEntries, stAdvice, foodEntries, groupedEntries,
                           todaysCalories, nutritionAdvice, isAnalyzingNutrition,
                           ops, loads, refreshTrigger, failures>>
       ELSE /\ ops' = Append(NotAlone(ops),
                             [BlankOp EXCEPT !.kind = "add", !.pc = "A1",
                                             !.src = "add",
                                             !.cFE = foodEntries,
                                             !.cNA = nutritionAdvice,
                                             !.entry = Some(FoodEntry(now, food, calories, Null)),
                                             !.ents = stEntries,
                                             !.tcBefore = todaysCalories,
                                             !.alone = Quiet])
            /\ ev' = Ev("add", Null)
            /\ UNCHANGED <<now, stEntries, stAdvice, foodEntries, groupedEntries,
                           todaysCalories, nutritionAdvice, isAnalyzingNutrition,
                           loads, refreshTrigger, failures, snackbar>>

\* a storage call of addFoodEntry has failed: the promise is rejected and
\* handleSaveFood shows the error
AddRejected(i) ==
    /\ ops' = RemoveAt(ops, i)
    /\ snackbar' = "Failed to save food entry"
    /\ ev' = Ev("addFailed", Some(ops[i]))

\* getItem("foodEntries") has returned: push and setItem
AddCont1(i) ==
    /\ i \in 1 .. Len(ops)
    /\ ops[i].kind = "add" /\ ops[i].pc = "A1"
    /\ \E rok \in Outcomes :
          IF rok
          THEN \E wok \in Outcomes :
                  /\ stEntries' = IF wok
                                  THEN Some(Append(StoredList(ops[i].ents), ops[i].entry[1]))
                                  ELSE stEntries
                  /\ ops' = [ops EXCEPT ![i].pc = "A2", ![i].ok = wok]
                  /\ failures' = Failed(wok)
                  /\ ev' = Ev("addStep", Null)
                  /\ UNCHANGED snackbar
          ELSE /\ AddRejected(i)
               /\ failures' = Failed(rok)
               /\ UNCHANGED stEntries
    /\ UNCHANGED <<now, stAdvice, foodEntries, groupedEntries, todaysCalories,
                   nutritionAdvice, isAnalyzingNutrition, loads, refreshTrigger, issued>>

\* setItem has returned: bump today's calories and call loadFoodEntries
AddCont2(i) ==
    /\ i \in 1 .. Len(ops)
    /\ ops[i].kind = "add" /\ ops[i].pc = "A2"
    /\ IF ops[i].ok
       THEN /\ todaysCalories' = todaysCalories + ops[i].entry[1].calories
            /\ ops' = [ops EXCEPT ![i].pc = "A3", ![i].ents = stEntries]
            /\ ev' = Ev("addStep", Null)
            /\ UNCHANGED snackbar
       ELSE /\ AddRejected(i)
            /\ UNCHANGED todaysCalories
    /\ UNCHANGED <<now, stEntries, stAdvice, foodEntries, groupedEntries,
                   nutritionAdvice, isAnalyzingNutrition, loads, refreshTrigger, issued,
                   failures>>

\* the end of addFoodEntry: analyzeNutritionForDate(today) is started with
\* the closure of the add's render, the promise resolves and handleSaveFood
\* shows its success message
AddFinish(i, loaded) ==
    /\ ops' = [ops EXCEPT ![i] = AnalyzeOp("add", formatDateString(now),
                                           ops[i].cFE, ops[i].cNA, ops[i])]
    /\ isAnalyzingNutrition' = TRUE
    /\ snackbar' = "Added"
    /\ ev' = Ev(IF loaded THEN "addDone" ELSE "addDoneNoLoad", Some(ops[i]))

\* the load inside the add: getItem("foodEntries") has returned
AddCont3(i) ==
    /\ i \in 1 .. Len(ops)
    /\ ops[i].kind = "add" /\ ops[i].pc = "A3"
    /\ \E rok \in Outcomes :
          /\ failures' = Failed(rok)
          /\ IF rok
             THEN /\ ops' = [ops EXCEPT ![i].pc = "A4", ![i].adv = stAdvice]
                  /\ ev' = Ev("addStep", Null)
                  /\ UNCHANGED <<isAnalyzingNutrition, snackbar>>
             ELSE AddFinish(i, FALSE)
    /\ UNCHANGED <<now, stEntries, stAdvice, foodEntries, groupedEntries,
                   todaysCalories, nutritionAdvice, loads, refreshTrigger, issued>>

\* the load inside the add: getItem("nutritionAdvice") has returned
AddCont4(i) ==
    /\ i \in 1 .. Len(ops)
    /\ ops[i].kind = "add" /\ ops[i].pc = "A4"
    /\ \E rok \in Outcomes :
          /\ failures' = Failed(rok)
          /\ IF rok
             THEN /\ nutritionAdvice' = LoadedAdvice(ops[i].adv)
                  /\ foodEntries' = LoadedEntries(ops[i].ents)
                  /\ groupedEntries' = LoadedGroups(ops[i].ents, ops[i].cNA)
                  /\ todaysCalories' = LoadedCalories(ops[i].ents, todaysCalories)
                  /\ IF ops[i].adv # Null
                     THEN /\ CanStartLoad(loads, EffectLoad(ops[i].adv[1], stEntries))
                          /\ loads' = loads \cup {EffectLoad(ops[i].adv[1], stEntries)}
                     ELSE loads' = loads
             ELSE UNCHANGED <<nutritionAdvice, foodEntries, groupedEntries,
                              todaysCalories, loads>>
          /\ AddFinish(i, rok)
    /\ UNCHANGED <<now, stEntries, stAdvice, refreshTrigger, issued>>

(***************************************************************************)
(* deleteFoodEntry                                                         *)
(***************************************************************************)
\* foodEntries.find((entry) => entry.id === id)
FindEntry(entries, id) ==
    LET hits == SelectSeq(entries, LAMBDA e : e.id = id)
    IN  IF hits = <<>> THEN Null ELSE Some(Head(hits))

WithoutId(entries, id) == SelectSeq(entries, LAMBDA e : e.id # id)

\* today's calories after the entry found (if any) is taken off
CaloriesAfterDelete(calories, entryToDelete, t) ==
    IF entryToDelete # Null /\ entryToDelete[1].timestamp >= getStartOfToday(t)
    THEN calories - entryToDelete[1].calories
    ELSE calories

\* the ids of the cards the history shows
ShownIds == {e.id : e \in SeqToSet(Flatten(groupedEntries))}

\* the call as it waits for setItem
DeleteOp(id, wok) ==
    LET entryToDelete == FindEntry(foodEntries, id)
    IN  [BlankOp EXCEPT
            !.kind = "delete", !.pc = "D1", !.src = "delete", !.id = id,
            !.ok = wok,
            !.cFE = foodEntries,
            !.cNA = nutritionAdvice,
            !.entry = entryToDelete,
            !.ents = Some(WithoutId(foodEntries, id)),
            !.date = IF entryToDelete = Null THEN Null
                     ELSE Some(formatDateString(entryToDelete[1].timestamp)),
            !.tcBefore = todaysCalories,
            !.alone = Quiet]

\* the synchronous part: the state is updated and setItem is issued
DeleteFoodEntry(id) ==
    /\ issued < MaxIssued
    /\ issued' = issued + 1
    /\ foodEntries' = WithoutId(foodEntries, id)
    /\ todaysCalories' = CaloriesAfterDelete(todaysCalories, FindEntry(foodEntries, id), now)
    /\ \E wok \in Outcomes :
          /\ stEntries' = IF wok THEN Some(WithoutId(foodEntries, id)) ELSE stEntries
          /\ failures' = Failed(wok)
          /\ ops' = Append(NotAlone(ops), DeleteOp(id, wok))
          /\ ev' = Ev("delete", Some(DeleteOp(id, wok)))
    /\ UNCHANGED <<now, stAdvice, groupedEntries, nutritionAdvice,
                   isAnalyzingNutrition, loads, refreshTrigger, snackbar>>

\* setItem has returned: regroup and re-analyse the entry's day
DeleteCont1(i) ==
    /\ i \in 1 .. Len(ops)
    /\ ops[i].kind = "delete" /\ ops[i].pc = "D1"
    /\ IF ops[i].ok
       THEN /\ groupedEntries' = groupEntriesByDay(ops[i].ents[1], ops[i].cNA)
            /\ IF ops[i].date # Null
               THEN /\ ops' = [ops EXCEPT ![i] =
                                  AnalyzeOp("delete", ops[i].date[1], ops[i].cFE,
                                            ops[i].cNA, ops[i])]
                    /\ isAnalyzingNutrition' = TRUE
               ELSE /\ ops' = RemoveAt(ops, i)
                    /\ UNCHANGED isAnalyzingNutrition
            /\ ev' = Ev("deleteDone", Some(ops[i]))
       ELSE /\ ops' = RemoveAt(ops, i)
            /\ ev' = Ev("deleteFailed", Some(ops[i]))
            /\ UNCHANGED <<groupedEntries, isAnalyzingNutrition>>
    /\ UNCHANGED <<now, stEntries, stAdvice, foodEntries, todaysCalories,
                   nutritionAdvice, loads, refreshTrigger, issued, failures, snackbar>>

(***************************************************************************)
(* The clock and the specifications                                        *)
(***************************************************************************)
Tick ==
    /\ now < Now0 + MaxTicks
    /\ ops = <<>>
    /\ now' = now + 1
    /\ ev' = Ev("tick", Null)
    /\ UNCHANGED <<stEntries, stAdvice, foodEntries, groupedEntries,
                   todaysCalories, nutritionAdvice, isAnalyzingNutrition, ops,
                   loads, refreshTrigger, issued, failures, snackbar>>

OpSlots == 1 .. MaxIssued

\* entries are saved by name and calories here: the capture flow stays in its
\* initial state, which is also what handleSaveFood's resetImage and
\* resetAnalysis leave
Init == StoreInit /\ MacroIdle /\ ImageIdle /\ SettingsIdle

Next ==
    /\ \/ \E food \in Foods, calories \in CalorieInputs : HandleSaveFood(food, calories)
       \/ \E i \in OpSlots : AddCont1(i)
       \/ \E i \in OpSlots : AddCont2(i)
       \/ \E i \in OpSlots : AddCont3(i)
       \/ \E i \in OpSlots : AddCont4(i)
       \/ \E id \in ShownIds : DeleteFoodEntry(id)
       \/ \E i \in OpSlots : DeleteCont1(i)
       \/ \E i \in 1 .. Len(groupedEntries) : AnalyzeDay(groupedEntries[i].title)
       \/ \E i \in OpSlots : AnalyzeCont1(i)
       \/ \E i \in OpSlots : AnalyzeCont2(i)
       \/ \E i \in OpSlots : AnalyzeCont3(i)
       \/ \E i \in OpSlots : AnalyzeCont4(i)
       \/ \E l \in loads : LoadCont1(l)
       \/ \E l \in loads : LoadCont2(l)
       \/ Refresh
       \/ Tick
    /\ UNCHANGED <<macroVars, imageVars, settingsVars>>

Spec == Init /\ [][Next]_vars

\* the macro normalisation on its own, over every triple of the bounded range
InitMacro == StoreIdle /\ MacroInit /\ ImageIdle /\ SettingsIdle

NextMacro == Normalize /\ UNCHANGED <<storeVars, imageVars, settingsVars>>

SpecMacro == InitMacro /\ [][NextMacro]_vars

(***************************************************************************)
(* Claims about the macro normalisation (SpecMacro)                        *)
(***************************************************************************)
Returned == macroPc = "returned"

InputSum == IntVal(macroIn.protein) + IntVal(macroIn.fat) + IntVal(macroIn.carbs)

InTolerance == InputSum - 100 <= 5 /\ 100 - InputSum <= 5

Components == {macroOut.protein, macroOut.fat, macroOut.carbs}

AllIntegers == \A x \in Components : IsInt(x)

OutputSum == IntVal(macroOut.protein) + IntVal(macroOut.fat) + IntVal(macroOut.carbs)

\* what the three roundings alone add up to
RoundedSum ==
    LET r(v) == IntVal(MathRound(JSMul(v, JSDiv(Num(100), Num(InputSum)))))
    IN  r(macroIn.protein) + r(macroIn.fat) + r(macroIn.carbs)

C7_NonNegativeIntegers ==
    (Returned /\ InputSum > 0) => \A x \in Components : IsInt(x) /\ IntVal(x) >= 0

\* C8: a zero sum is treated as 1 and gives exactly {0, 0, 100}.
C8_ZeroSumGivesCarbs100 ==
    (Returned /\ InputSum = 0) =>
        macroOut = [protein |-> Num(0), fat |-> Num(0), carbs |-> Num(100)]

(***************************************************************************)
(* Claims about the entry store (Spec)                                     *)
(***************************************************************************)
\* the operation the last step belongs to
LastOp == ev.op[1]

Persisted == StoredList(stEntries)

PersistedAdvice == IF stAdvice = Null THEN {} ELSE stAdvice[1]

\* C1: when addFoodEntry(name, calories) completes with its storage calls
\* successful and nothing else in flight, the entry list contains the entry
\* and today's total is its value before the call plus calories.
C1_AddListedAndTotalled ==
    (ev.type \in {"addDone", "addDoneNoLoad"} /\ LastOp.alone /\ failures = 0) =>
        /\ \E e \in SeqToSet(foodEntries) :
              e.name = LastOp.entry[1].name /\ e.calories = LastOp.entry[1].calories
        /\ todaysCalories = LastOp.tcBefore + LastOp.entry[1].calories

\* the entries the analysis in LastOp works on
DateEntriesOf(op) == EntriesOfDate(op.cFE, op.date[1])

\* C2: if deleteFoodEntry removed the only entry of day D, then once the
\* delete and the re-analysis it started have completed (nothing else having
\* run meanwhile, no storage call having failed), neither the in-memory nor
\* the persisted advice map has an entry for D.
C2_LastDeleteRemovesAdvice ==
    (/\ ev.type = "analyzeDone"
     /\ LastOp.src = "delete"
     /\ LastOp.alone
     /\ failures = 0
     /\ Len(DateEntriesOf(LastOp)) = 1) =>
        /\ AdviceFor(nutritionAdvice, LastOp.date[1]) = {}
        /\ AdviceFor(PersistedAdvice, LastOp.date[1]) = {}

\* C3: the analysis addFoodEntry starts for today works on exactly the
\* persisted entries of today, the new entry included, so never on none.
C3_AnalysisSeesNewEntry ==
    (/\ ev.type \in {"apiCall", "noEntries"}
     /\ LastOp.src = "add"
     /\ LastOp.alone
     /\ failures = 0) =>
        /\ ev.type = "apiCall"
        /\ LastOp.entry[1] \in SeqToSet(DateEntriesOf(LastOp))
        /\ SeqToSet(DateEntriesOf(LastOp))
              = SeqToSet(EntriesOfDate(Persisted, LastOp.date[1]))

\* what the user can observe of the store
Observable ==
    <<stEntries, foodEntries, todaysCalories, groupedEntries, nutritionAdvice,
      stAdvice>>

\* a step of a deleteFoodEntry(id) that follows an earlier call for the same
\* id (only the card of a removed entry carries an id that foodEntries
\* lacks), issued with nothing else in flight
RepeatedDeleteStep ==
    /\ ev'.type \in {"delete", "deleteDone", "deleteFailed"}
    /\ ev'.op[1].entry = Null
    /\ ev'.op[1].alone

\* C4: deleteFoodEntry(id) is idempotent: calling it again for the same id
\* changes nothing observable (persisted entries, in-memory entries, today's
\* total, grouped view, advice map).
C4_DeleteIdempotent == [][RepeatedDeleteStep => Observable' = Observable]_vars

\* C5: every entry of the grouped view has timestamp >= now - 7 days.  It is
\* stated for the states in which a load or a delete has just recomputed the
\* view, and with the load's own cut-off: midnight seven days back, which is
\* never later than now - 7 days, so an entry below it is older than 7 days.
C5_GroupsWithinSevenDays ==
    ev.type \in {"loadDone", "deleteDone"} =>
        \A e \in SeqToSet(Flatten(groupedEntries)) :
            e.timestamp >= getSevenDaysAgo(now)

\* C9: whenever nothing is in flight (and no storage call has failed), the
\* in-memory total equals the calories of the persisted entries of today.
C9_TotalMatchesPersisted ==
    (Quiet /\ failures = 0) =>
        todaysCalories = SumCalories(TodayEntries(Persisted, now))

\* C10: addFoodEntry with an empty name or calories <= 0 fails: its caller
\* gets an outcome other than that of a successful add.
C10_InvalidAddRejected == ev.type = "addInvalid" => snackbar # "Added"

\* a step in which handleSaveFood calls addFoodEntry with an empty name or
\* with calories <= 0, whatever the call then does
InvalidAddStep ==
    \/ ev'.type = "addInvalid"
    \/ /\ ev'.type = "add"
       /\ LET newEntry == ops'[Len(ops')].entry[1]
          IN  newEntry.name = "" \/ newEntry.calories <= 0

\* C11: a call of addFoodEntry with an empty name or calories <= 0 leaves the
\* persisted entries and the in-memory entry list unchanged and triggers no
\* day analysis (it starts nothing at all).
C11_InvalidAddChangesNothing ==
    [][InvalidAddStep =>
          /\ stEntries' = stEntries
          /\ foodEntries' = foodEntries
          /\ ops' = ops
          /\ loads' = loads
          /\ isAnalyzingNutrition' = isAnalyzingNutrition]_vars

C11_Witness ==
    /\ ev.type = "addInvalid"
    /\ Persisted # <<>>
    /\ foodEntries # <<>>

\* C12: addFoodEntry is atomic: when a storage call inside it fails the caller
\* gets a failure and neither the persisted entries nor the in-memory state
\* has changed; when the caller gets success the entry is both persisted and
\* in the in-memory list.  Stated for an add that ran alone.
C12_AddAtomic ==
    LET newEntry == LastOp.entry[1]
    IN  /\ (ev.type = "addFailed" /\ LastOp.alone) =>
              /\ newEntry \notin SeqToSet(Persisted)
              /\ foodEntries = LastOp.cFE
              /\ todaysCalories = LastOp.tcBefore
        /\ (ev.type \in {"addDone", "addDoneNoLoad"} /\ LastOp.alone) =>
              /\ newEntry \in SeqToSet(Persisted)
              /\ newEntry \in SeqToSet(foodEntries)

\* C13: when the storage write inside deleteFoodEntry fails, the in-memory
\* entry list, today's total and the advice map are as they were before the
\* call.  Stated for a delete that ran alone.
C13_FailedDeleteIsNoOp ==
    (ev.type = "deleteFailed" /\ LastOp.alone) =>
        /\ foodEntries = LastOp.cFE
        /\ todaysCalories = LastOp.tcBefore
        /\ nutritionAdvice = LastOp.cNA

(***************************************************************************)
(* deleteFoodEntry as the hook exports it: called with the id of a shown   *)
(* card or with an id that no entry has (SpecAbsent)                       *)
(***************************************************************************)
\* entry ids are decimal timestamps: this one is never an entry's id
NoSuchId == "none"

DeleteIds == ShownIds \cup {NoSuchId}

NextAbsent ==
    /\ \/ \E id \in DeleteIds : DeleteFoodEntry(id)
       \/ \E i \in OpSlots : DeleteCont1(i)
       \/ \E i \in OpSlots : AnalyzeCont1(i)
       \/ \E i \in OpSlots : AnalyzeCont2(i)
       \/ \E i \in OpSlots : AnalyzeCont3(i)
       \/ \E i \in OpSlots : AnalyzeCont4(i)
       \/ \E l \in loads : LoadCont1(l)
       \/ \E l \in loads : LoadCont2(l)
    /\ UNCHANGED <<macroVars, imageVars, settingsVars>>

SpecAbsent == Init /\ [][NextAbsent]_vars

\* a step of a deleteFoodEntry(id) whose id neither an in-memory nor a
\* persisted entry has, called with nothing in flight, no storage call failing
AbsentIdStep ==
    /\ ev'.type \in {"delete", "deleteDone", "deleteFailed"}
    /\ ev'.op[1].id = NoSuchId
    /\ ev'.op[1].alone
    /\ failures' = 0

\* C14: deleteFoodEntry(id) with an id that matches no entry changes neither
\* the persisted entries, the in-memory entry list, today's total, the
\* grouped view nor the advice map, and triggers no day analysis.
C14_AbsentIdIsNoOp ==
    [][AbsentIdStep =>
          /\ SeqToSet(Persisted') = SeqToSet(Persisted)
          /\ foodEntries' = foodEntries
          /\ todaysCalories' = todaysCalories
          /\ groupedEntries' = groupedEntries
          /\ nutritionAdvice' = nutritionAdvice
          /\ stAdvice' = stAdvice
          /\ isAnalyzingNutrition' = isAnalyzingNutrition]_vars

(***************************************************************************)
(* The capture flow: CameraView.takePicture, useFoodAnalysis.analyzeImage, *)
(* useOpenAIVision.analyzeImage and analyzeFoodImage                       *)
(***************************************************************************)
MaxTaps == 2       \* presses of the capture button in a session

Descriptions == {"", "pizza"}
ReplyCalories == {Null, Some(0), Some(300)}
ReplyNutrition ==
    {Null,
     Some([protein |-> Num(20), fat |-> Num(30), carbs |-> Num(50)]),
     Some([protein |-> Num(10), fat |-> Num(10), carbs |-> Num(10)])}

VisionReplies ==
    [kind : TransportKinds, foodFound : {"absent"}, description : {""},
     calories : {Null}, nutrition : {Null}]
    \cup [kind : {"json"}, foodFound : {"true", "false", "absent"},
          description : Descriptions, calories : ReplyCalories,
          nutrition : ReplyNutrition]

NoReply ==
    [kind |-> "none", foodFound |-> "absent", description |-> "",
     calories |-> Null, nutrition |-> Null]

\* the test left out
InvalidShapeNever(result) == FALSE

\* the test of the result's structure when food is found
InvalidShape(result) ==
    \/ result.foodFound # "true"
    \/ result.description = ""
    \/ result.calories = Null
    \/ result.nutrition = Null

\* analyzeFoodImage from the reply of the request on
analyzeFoodImage(reply) ==
    LET data == makeOpenAIRequest(reply)
    IN  IF ~data.ok THEN data
        ELSE IF reply.kind = "noContent"
        THEN Rejected("No content returned from OpenAI")
        ELSE IF reply.kind = "badJson"
        THEN Rejected("Failed to parse OpenAI response")
        ELSE IF reply.foodFound = "false"
        THEN Resolved(FALSE, "", 0,
                      Some([protein |-> Num(0), fat |-> Num(0), carbs |-> Num(0)]))
        ELSE IF InvalidShape(reply)
        THEN Rejected("Failed to parse OpenAI response")
        ELSE Resolved(reply.foodFound = "true", reply.description,
                      IF reply.calories = Null THEN 0 ELSE reply.calories[1],
                      IF reply.nutrition = Null THEN Null
                      ELSE Some(NormalizeNutrition(reply.nutrition[1])))

ImgEv(type, kind, reply) == [type |-> type, kind |-> kind, reply |-> reply]

ImageInit ==
    /\ image = Null
    /\ isAnalyzing = FALSE
    /\ recognizedFood = ""
    /\ estimatedCalories = 0
    /\ nutritionData = Null
    /\ foodNotRecognized = FALSE
    /\ error = Null
    /\ openAIError = Null
    /\ calls = <<>>
    /\ taps = 0
    /\ apiKeyValid \in BOOLEAN
    /\ imgEv = ImgEv("mount", "", NoReply)

\* a press on the camera area: takePicture up to its first await
TakePicture ==
    /\ image = Null
    /\ taps < MaxTaps
    /\ taps' = taps + 1
    /\ calls' = Append(calls, [pc |-> "capture", n |-> taps + 1])
    /\ imgEv' = ImgEv("tap", "", NoReply)
    /\ UNCHANGED <<image, isAnalyzing, recognizedFood, estimatedCalories,
                   nutritionData, foodNotRecognized, error, openAIError,
                   apiKeyValid>>

\* takePictureAsync and resizeImage have ended: the photo is shown and
\* analyzeImage runs up to the read of the file; a capture that rejected is
\* logged and dropped
CaptureDone(i) ==
    /\ i \in 1 .. Len(calls)
    /\ calls[i].pc = "capture"
    /\ \E ok \in BOOLEAN :
          IF ok
          THEN /\ image' = Some("file://photo")
               /\ isAnalyzing' = TRUE
               /\ foodNotRecognized' = FALSE
               /\ error' = Null
               /\ openAIError' = Null
               /\ calls' = [calls EXCEPT ![i].pc = "read"]
               /\ imgEv' = ImgEv("analyzeStart", "", NoReply)
          ELSE /\ calls' = RemoveAt(calls, i)
               /\ imgEv' = ImgEv("captureFailed", "", NoReply)
               /\ UNCHANGED <<image, isAnalyzing, foodNotRecognized, error,
                              openAIError>>
    /\ UNCHANGED <<recognizedFood, estimatedCalories, nutritionData, taps,
                   apiKeyValid>>

\* the catch blocks of useOpenAIVision.analyzeImage and of analyzeImage, and
\* the finally of the latter
Caught(i, message, kind, reply) ==
    /\ openAIError' = Some(message)
    /\ foodNotRecognized' = TRUE
    /\ recognizedFood' = ""
    /\ estimatedCalories' = 0
    /\ nutritionData' = Null
    /\ error' = Some(message)
    /\ isAnalyzing' = FALSE
    /\ calls' = RemoveAt(calls, i)
    /\ imgEv' = ImgEv("caught", kind, reply)

\* analyzeImage after a result with foodFound false
NotFound(i, reply) ==
    /\ openAIError' = Null
    /\ foodNotRecognized' = TRUE
    /\ recognizedFood' = ""
    /\ estimatedCalories' = 0
    /\ nutritionData' = Null
    /\ isAnalyzing' = FALSE
    /\ calls' = RemoveAt(calls, i)
    /\ imgEv' = ImgEv("notFound", "json", reply)
    /\ UNCHANGED error

\* analyzeImage after a result with food
Found(i, result, reply) ==
    /\ openAIError' = Null
    /\ recognizedFood' = result.description
    /\ estimatedCalories' = result.calories
    /\ nutritionData' = result.nutrition
    /\ isAnalyzing' = FALSE
    /\ calls' = RemoveAt(calls, i)
    /\ imgEv' = ImgEv("found", "json", reply)
    /\ UNCHANGED <<foodNotRecognized, error>>

\* readAsStringAsync has ended; makeOpenAIRequest tests the key and sends
ReadDone(i) ==
    /\ i \in 1 .. Len(calls)
    /\ calls[i].pc = "read"
    /\ \E ok \in BOOLEAN :
          IF ~ok
          THEN Caught(i, "Failed to read image file", "readFailed", NoReply)
          ELSE IF ~apiKeyValid
          THEN Caught(i, "OpenAI API key is missing or invalid", "noKey", NoReply)
          ELSE /\ calls' = [calls EXCEPT ![i].pc = "fetch"]
               /\ imgEv' = ImgEv("requestSent", "", NoReply)
               /\ UNCHANGED <<isAnalyzing, recognizedFood, estimatedCalories,
                              nutritionData, foodNotRecognized, error,
                              openAIError>>
    /\ UNCHANGED <<image, taps, apiKeyValid>>

\* the fetch has ended, by a reply, a transport failure or the timer
FetchDone(i) ==
    /\ i \in 1 .. Len(calls)
    /\ calls[i].pc = "fetch"
    /\ \E reply \in VisionReplies :
          LET result == analyzeFoodImage(reply)
          IN  IF ~result.ok THEN Caught(i, result.message, reply.kind, reply)
              ELSE IF ~result.foodFound THEN NotFound(i, reply)
              ELSE Found(i, result, reply)
    /\ UNCHANGED <<image, taps, apiKeyValid>>

\* handleDiscard, offered with a recognised food once the analysis is over
HandleDiscard ==
    /\ ~isAnalyzing
    /\ recognizedFood # ""
    /\ image' = Null
    /\ recognizedFood' = ""
    /\ estimatedCalories' = 0
    /\ nutritionData' = Null
    /\ foodNotRecognized' = FALSE
    /\ error' = Null
    /\ snackbar' = "Food analysis discarded"
    /\ imgEv' = ImgEv("discard", "", NoReply)
    /\ UNCHANGED <<isAnalyzing, openAIError, calls, taps, apiKeyValid>>

CallSlots == 1 .. MaxTaps

InitImage == StoreIdle /\ MacroIdle /\ ImageInit /\ SettingsIdle

NextImage ==
    \/ /\ \/ TakePicture
          \/ \E i \in CallSlots : CaptureDone(i)
          \/ \E i \in CallSlots : ReadDone(i)
          \/ \E i \in CallSlots : FetchDone(i)
       /\ UNCHANGED <<storeVars, macroVars, settingsVars>>
    \/ /\ HandleDiscard
       /\ UNCHANGED <<now, stEntries, stAdvice, foodEntries, groupedEntries,
                      todaysCalories, nutritionAdvice, isAnalyzingNutrition,
                      ops, loads, refreshTrigger, issued, failures, ev>>
       /\ UNCHANGED <<macroVars, settingsVars>>

SpecImage == InitImage /\ [][NextImage]_vars


AnalysisCompleted == imgEv.type \in {"caught", "notFound", "found"}

\* C15: when a call of analyzeImage has completed, isAnalyzing is false and
\* exactly one of the two outcomes holds: recognizedFood is non-empty, or
\* foodNotRecognized is true.
C15_ExactlyOneOutcome ==
    AnalysisCompleted =>
        /\ ~isAnalyzing
        /\ (recognizedFood # "") # foodNotRecognized


\* a reply that is no food: a transport failure, the timer, a status outside
\* 2xx, missing or malformed JSON, foodFound false, or a result that lacks a
\* field
FailureReply(reply) ==
    \/ reply.kind \in {"network", "timeout", "status", "noContent", "badJson"}
    \/ /\ reply.kind = "json"
       /\ \/ reply.foodFound # "true"
          \/ reply.description = ""
          \/ reply.calories = Null
          \/ reply.nutrition = Null

\* C16: whichever way the vision call fails (network error, timeout, non-2xx
\* status, missing or malformed JSON, invalid result shape), and when it
\* replies foodFound false, the completed analysis leaves the same outcome:
\* foodNotRecognized true, recognizedFood empty, estimatedCalories 0 and
\* nutritionData null; the timeout is one of these kinds.
C16_FailuresShareOneOutcome ==
    (AnalysisCompleted /\ FailureReply(imgEv.reply)) =>
        /\ foodNotRecognized
        /\ recognizedFood = ""
        /\ estimatedCalories = 0
        /\ nutritionData = Null

C16_Witness ==
    /\ AnalysisCompleted
    /\ imgEv.reply.kind = "timeout"
    /\ foodNotRecognized


\* analyzeNutritionForDate, started by the user or by a delete, in a build
\* with or without an API key
InitAdvice == StoreInit /\ MacroIdle /\ ImageInit /\ SettingsIdle

NextAdvice ==
    /\ \/ \E i \in 1 .. Len(groupedEntries) : AnalyzeDay(groupedEntries[i].title)
       \/ \E id \in ShownIds : DeleteFoodEntry(id)
       \/ \E i \in OpSlots : DeleteCont1(i)
       \/ \E i \in OpSlots : AnalyzeCont1(i)
       \/ \E i \in OpSlots : AnalyzeCont2(i)
       \/ \E i \in OpSlots : AnalyzeCont3(i)
       \/ \E i \in OpSlots : AnalyzeCont4(i)
       \/ \E l \in loads : LoadCont1(l)
       \/ \E l \in loads : LoadCont2(l)
    /\ UNCHANGED <<macroVars, imageVars, settingsVars>>

SpecAdvice == InitAdvice /\ [][NextAdvice]_vars

\* the advice request failed: no key, a transport failure, the timer, a
\* status outside 2xx, or a reply that is unparseable or lacks a field
AdviceRequestFailed ==
    \/ ~apiKeyValid
    \/ LastOp.reply.kind \in {"network", "timeout", "status", "noContent", "badJson"}
    \/ /\ LastOp.reply.kind = "json"
       /\ (LastOp.reply.summary = "" \/ LastOp.reply.advice = "")

FallbackOfDay(m, d) ==
    AdviceFor(m, d) = {[date |-> d, advice |-> FallbackAdvice]}

\* C17: when the advice request of analyzeNutritionForDate fails in any way
\* (network, timeout, non-2xx, unparseable or incomplete reply, missing API
\* key), the fixed fallback becomes the day's advice, in memory and, when the
\* write succeeds, in storage; and every analyzeNutritionForDate call ends
\* with isAnalyzingNutrition false.
C17_FallbackStored ==
    /\ (ev.type = "adviceSet" /\ AdviceRequestFailed) =>
          /\ FallbackOfDay(nutritionAdvice, LastOp.date[1])
          /\ failures = 0 => FallbackOfDay(PersistedAdvice, LastOp.date[1])
    /\ ev.type \in {"analyzeDone", "analyzeFailed"} => ~isAnalyzingNutrition

C17_Witness ==
    /\ ev.type = "analyzeDone"
    /\ LastOp.alone
    /\ FallbackOfDay(nutritionAdvice, LastOp.date[1])
    /\ FallbackOfDay(PersistedAdvice, LastOp.date[1])


\* C18: the persisted entries have pairwise distinct ids, also after two adds
\* within the same clock millisecond.
C18_PersistedIdsDistinct ==
    \A i, j \in 1 .. Len(Persisted) :
        Persisted[i].id = Persisted[j].id => i = j


\* C19: at most one store mutation (add, delete, analyze-day) is in flight at
\* any time: a mutation, its write and the analysis it triggers are over
\* before the next one starts.
C19_OneMutationInFlight == Len(ops) <= 1


(***************************************************************************)
(* "Clear All Data" of the settings screen                                 *)
(***************************************************************************)
\* the keys handleConfirmDelete removes
ClearedKeys == {"foodEntries", "settings", "hasCompletedOnboarding"}

SavedSettings == [dailyCalorieGoal |-> 1800]

\* the keys are removed when the removals are issued; when one removal
\* rejects, the other two have still taken place
HandleConfirmDelete ==
    /\ clearPc = "idle"
    /\ ops = <<>>
    /\ \E ok \in Outcomes, kept \in ClearedKeys :
          LET removed == IF ok THEN ClearedKeys ELSE ClearedKeys \ {kept}
          IN  /\ stEntries' = IF "foodEntries" \in removed THEN Null ELSE stEntries
              /\ stSettings' = IF "settings" \in removed THEN Null ELSE stSettings
              /\ stOnboarding' = IF "hasCompletedOnboarding" \in removed
                                 THEN Null ELSE stOnboarding
              /\ clearPc' = IF ok THEN "removed" ELSE "rejected"
              /\ failures' = Failed(ok)
    /\ ev' = Ev("clearStart", Null)
    /\ UNCHANGED <<now, stAdvice, foodEntries, groupedEntries, todaysCalories,
                   nutritionAdvice, isAnalyzingNutrition, ops, loads,
                   refreshTrigger, issued, snackbar>>

\* Promise.all has settled: after a rejection only the snackbar changes; after
\* success the timer replaces the route with "/", which mounts the home screen
\* and its hooks anew and lets the effect start a load
ClearCont ==
    /\ clearPc # "idle"
    /\ clearPc' = "idle"
    /\ IF clearPc = "removed"
       THEN /\ snackbar' = "All app data has been cleared"
            /\ foodEntries' = <<>>
            /\ groupedEntries' = <<>>
            /\ todaysCalories' = 0
            /\ nutritionAdvice' = {}
            /\ isAnalyzingNutrition' = FALSE
            /\ loads' = {EffectLoad({}, stEntries)}
            /\ refreshTrigger' = 0
            /\ ev' = Ev("cleared", Null)
       ELSE /\ snackbar' = "Failed to clear data"
            /\ ev' = Ev("clearFailed", Null)
            /\ UNCHANGED <<foodEntries, groupedEntries, todaysCalories,
                           nutritionAdvice, isAnalyzingNutrition, loads,
                           refreshTrigger>>
    /\ UNCHANGED <<now, stEntries, stAdvice, stSettings, stOnboarding, ops,
                   issued, failures>>

\* a session on the home screen with a visit to the settings screen
InitClear ==
    /\ StoreInit
    /\ MacroIdle
    /\ ImageIdle
    /\ stSettings \in {Null, Some(SavedSettings)}
    /\ stOnboarding = Some("true")
    /\ clearPc = "idle"

NextClear ==
    \/ /\ clearPc = "idle"
       /\ \/ \E food \in Foods, calories \in CalorieInputs : HandleSaveFood(food, calories)
          \/ \E i \in 1 .. Len(groupedEntries) : AnalyzeDay(groupedEntries[i].title)
       /\ UNCHANGED <<macroVars, imageVars, settingsVars>>
    \/ /\ \/ \E i \in OpSlots : AddCont1(i)
          \/ \E i \in OpSlots : AddCont2(i)
          \/ \E i \in OpSlots : AddCont3(i)
          \/ \E i \in OpSlots : AddCont4(i)
          \/ \E i \in OpSlots : AnalyzeCont1(i)
          \/ \E i \in OpSlots : AnalyzeCont2(i)
          \/ \E i \in OpSlots : AnalyzeCont3(i)
          \/ \E i \in OpSlots : AnalyzeCont4(i)
          \/ \E l \in loads : LoadCont1(l)
          \/ \E l \in loads : LoadCont2(l)
       /\ UNCHANGED <<macroVars, imageVars, settingsVars>>
    \/ /\ HandleConfirmDelete \/ ClearCont
       /\ UNCHANGED <<macroVars, imageVars>>

SpecClear == InitClear /\ [][NextClear]_vars

\* C20: once "Clear All Data" has completed successfully, no persisted
\* collection remains: no food entry, no daily advice, no settings and no
\* onboarding flag is left in storage.
C20_ClearRemovesEverything ==
    ev.type = "cleared" =>
        /\ Persisted = <<>>
        /\ PersistedAdvice = {}
        /\ stSettings = Null
        /\ stOnboarding = Null


(***************************************************************************)
(* A session over a storage of several entries, in the order of their      *)
(* creation, with deletes only                                             *)
(***************************************************************************)
LongEntryLists ==
    {<<OldEntry(0), OldEntry(DayLen), OldEntry(DayLen + 1),
       OldEntry((WindowDays + 1) * DayLen)>>,
     <<OldEntry(DayLen), OldEntry(DayLen + 1), OldEntry((WindowDays + 1) * DayLen)>>,
     <<OldEntry(DayLen + 1), OldEntry((WindowDays + 1) * DayLen)>>}

InitOrder ==
    /\ now = Now0
    /\ stEntries \in {Some(l) : l \in LongEntryLists}
    /\ stAdvice = Null
    /\ foodEntries = <<>>
    /\ groupedEntries = <<>>
    /\ todaysCalories = 0
    /\ nutritionAdvice = {}
    /\ isAnalyzingNutrition = FALSE
    /\ ops = <<>>
    /\ loads = {EffectLoad({}, stEntries)}
    /\ refreshTrigger = 0
    /\ issued = 0
    /\ failures = 0
    /\ snackbar = ""
    /\ ev = Ev("mount", Null)
    /\ MacroIdle
    /\ ImageIdle
    /\ SettingsIdle

NextOrder ==
    /\ \/ \E id \in ShownIds : DeleteFoodEntry(id)
       \/ \E i \in OpSlots : DeleteCont1(i)
       \/ \E i \in OpSlots : AnalyzeCont1(i)
       \/ \E i \in OpSlots : AnalyzeCont2(i)
       \/ \E i \in OpSlots : AnalyzeCont3(i)
       \/ \E i \in OpSlots : AnalyzeCont4(i)
       \/ \E l \in loads : LoadCont1(l)
       \/ \E l \in loads : LoadCont2(l)
       \/ Refresh
    /\ UNCHANGED <<macroVars, imageVars, settingsVars>>

SpecOrder == InitOrder /\ [][NextOrder]_vars

Descending(s) ==
    \A i, j \in 1 .. Len(s) : i < j => s[i].timestamp >= s[j].timestamp

\* C21: the in-memory entry list is sorted by timestamp descending, after a
\* load and after every delete, and the entries of each group of the grouped
\* view are in that descending order.
C21_ListsDescending ==
    /\ Descending(foodEntries)
    /\ \A g \in 1 .. Len(groupedEntries) : Descending(groupedEntries[g].data)

C21_Witness ==
    /\ ev.type = "deleteDone"
    /\ Len(foodEntries) >= 2
    /\ foodEntries[1].timestamp > foodEntries[2].timestamp
    /\ \E g \in 1 .. Len(groupedEntries) : Len(groupedEntries[g].data) >= 2
    /\ Persisted # foodEntries


Occurrences(s, e) == Cardinality({i \in 1 .. Len(s) : s[i] = e})

InWindow(e) == e.timestamp >= getSevenDaysAgo(now)

\* C22: in the groups a load has produced, every loaded entry of the 7-day
\* window appears exactly once, in the one group labelled with the formatted
\* day of its timestamp; no entry of the window is left out, no entry from
\* outside it is shown, and no group is empty.
C22_LoadGroupsPartitionWindow ==
    ev.type = "loadDone" =>
        LET shown == Flatten(groupedEntries)
        IN  /\ \A g \in 1 .. Len(groupedEntries) :
                  /\ groupedEntries[g].data # <<>>
                  /\ \A i \in 1 .. Len(groupedEntries[g].data) :
                        formatDateString(groupedEntries[g].data[i].timestamp)
                            = groupedEntries[g].title
                  /\ \A h \in 1 .. Len(groupedEntries) :
                        groupedEntries[h].title = groupedEntries[g].title => h = g
            /\ \A e \in SeqToSet(foodEntries) :
                  InWindow(e) => Occurrences(shown, e) = Occurrences(foodEntries, e)
            /\ \A e \in SeqToSet(shown) : InWindow(e) /\ e \in SeqToSet(foodEntries)

C22_Witness ==
    /\ ev.type = "loadDone"
    /\ Len(groupedEntries) >= 2
    /\ \E g \in 1 .. Len(groupedEntries) : Len(groupedEntries[g].data) >= 2
    /\ \E e \in SeqToSet(foodEntries) : ~InWindow(e)


(***************************************************************************)
(* The macro normalisation over triples whose sum is far from 100          *)
(***************************************************************************)
MacroWideValues == {0, 29, 58, 87, 145}

MacroWideInit ==
    /\ macroIn \in [protein : {Num(v) : v \in MacroWideValues},
                    fat : {Num(v) : v \in MacroWideValues},
                    carbs : {Num(v) : v \in MacroWideValues}]
    /\ macroOut = NoMacros
    /\ macroPc = "parsed"

InitMacroWide == StoreIdle /\ MacroWideInit /\ ImageIdle /\ SettingsIdle

SpecMacroWide == InitMacroWide /\ [][NextMacro]_vars

\* round(v * 100 / sum), halves upwards
ReferenceRound(v, sum) == (200 * v + sum) \div (2 * sum)

ReferenceNormalization(p, f, c) ==
    LET sum == p + f + c
        rp == ReferenceRound(p, sum)
        rf == ReferenceRound(f, sum)
        rc == ReferenceRound(c, sum)
    IN  IF sum - 100 <= 5 /\ 100 - sum <= 5
        THEN [protein |-> Num(p), fat |-> Num(f), carbs |-> Num(c)]
        ELSE [protein |-> Num(rp), fat |-> Num(rf),
              carbs |-> Num(rc + (100 - (rp + rf + rc)))]

\* C23: for non-negative integer inputs with a positive sum the normalisation
\* returns what the reference algorithm returns: the inputs when the sum is
\* within 5 of 100, else round(protein * 100 / sum), round(fat * 100 / sum)
\* and round(carbs * 100 / sum) plus the whole rounding remainder.
C23_EqualsReference ==
    (Returned /\ InputSum > 0) =>
        macroOut = ReferenceNormalization(IntVal(macroIn.protein),
                                          IntVal(macroIn.fat),
                                          IntVal(macroIn.carbs))


\* C24: a step of analyzeNutritionForDate for a day changes the persisted
\* advice of no other day: the advice stored for a day D stays as it is while
\* analyses for other days run, also when they overlap with the one for D.
C24_OtherDaysAdviceKept ==
    [][ev'.type \in {"adviceSet", "noEntries"} =>
           \A a \in PersistedAdvice :
               a.date # ev'.op[1].date[1] => a \in PersistedAdvice']_vars


\* C25: when analyzeNutritionForDate(D), run on its own, has stored advice
\* for D, the grouped view it sets at its end shows that advice on the group
\* labelled D.
C25_ViewCarriesStoredAdvice ==
    (ev.type = "analyzeDone" /\ LastOp.pc = "N4" /\ LastOp.ok /\ LastOp.alone) =>
        \A g \in 1 .. Len(groupedEntries) :
            groupedEntries[g].title = LastOp.date[1] =>
                \E a \in AdviceFor(PersistedAdvice, LastOp.date[1]) :
                    groupedEntries[g].nutritionAdvice = Some(a.advice)


\* C26: when the re-analysis that a deleteFoodEntry has triggered completes
\* (the delete on its own, every storage call successful), the deleted entry
\* is neither in the entry list nor in the grouped view.
C26_DeletedEntryStaysGone ==
    (/\ ev.type = "analyzeDone"
     /\ LastOp.src = "delete"
     /\ LastOp.entry # Null
     /\ LastOp.alone
     /\ failures = 0) =>
        /\ LastOp.entry[1] \notin SeqToSet(foodEntries)
        /\ LastOp.entry[1] \notin SeqToSet(Flatten(groupedEntries))


(***************************************************************************)
(* Progress: the continuation of every storage call and of every advice    *)
(* request is run once its promise has settled, whatever else is pending   *)
(***************************************************************************)
Continued(A) == A /\ UNCHANGED <<macroVars, imageVars, settingsVars>>

FairContinuations ==
    /\ \A i \in OpSlots :
          /\ WF_vars(Continued(DeleteCont1(i)))
          /\ WF_vars(Continued(AnalyzeCont1(i)))
          /\ WF_vars(Continued(AnalyzeCont2(i)))
          /\ WF_vars(Continued(AnalyzeCont3(i)))
          /\ WF_vars(Continued(AnalyzeCont4(i)))
    /\ WF_vars(Continued(\E l \in loads : LoadCont1(l)))
    /\ WF_vars(Continued(\E l \in loads : LoadCont2(l)))

SpecQuiesce == Init /\ [][NextAbsent]_vars /\ FairContinuations

\* C27: the store quiesces: after mount and after any mutation a state is
\* reached from which on no loadFoodEntries call is pending, also when a
\* persisted advice map exists.
C27_StoreQuiesces == <>[](loads = {})


\* C28: isAnalyzingNutrition is true exactly while at least one
\* analyzeNutritionForDate call is in flight; with two overlapping analyses
\* it does not become false before both have finished.
C28_FlagWhileAnalysing ==
    isAnalyzingNutrition <=> (\E i \in 1 .. Len(ops) : ops[i].kind = "analyze")


\* C29: handleSaveFood shows its "Added ... to your food log" message only
\* if the addFoodEntry call it awaited has persisted a new entry (its setItem
\* of the list with the entry pushed has succeeded), also when the calories
\* it saves are zero or negative.
C29_AddedOnlyAfterPersist ==
    (ev.type \in {"addInvalid", "addDone", "addDoneNoLoad"} /\ snackbar = "Added") =>
        /\ ev.op # Null
        /\ ev.op[1].entry # Null
        /\ ev.op[1].ok


\* C30: the capture flow never gets stuck: in every state where an image is
\* set and no analysis is running, also after foodNotRecognized has become
\* true, a user action that clears the image and brings the camera back (the
\* Discard button) is enabled.
C30_CaptureNeverStuck ==
    (image # Null /\ ~isAnalyzing /\ calls = <<>>) => ENABLED HandleDiscard

====
